---- MODULE Spec2Model ----
(***************************************************************************)
(* Model of src/main.py: the meeting-recorder bot.                         *)
(*                                                                         *)
(* State: the per-guild session dictionary `connections`, the three        *)
(* configuration globals, the in-memory config document and the contents   *)
(* of config.json, the handlers suspended in `await channel.connect()`,    *)
(* the voice connections handed out by connect(), and the runs of the      *)
(* completion callback once_done.  Every action is the code a handler      *)
(* executes between two awaits: asyncio runs that code without             *)
(* interleaving, and other handlers may run only while one is suspended.   *)
(***************************************************************************)
EXTENDS Integers, Sequences, FiniteSets, Bags, TLC

(* ---------------- bounds of the model ---------------- *)
NumGuilds == 2
MaxVc == 2
MaxPending == 2
MaxArgs == 2
MaxSpeakers == 2

(* ---------------- the world outside the program ---------------- *)
\* Python's None where a channel object or channel id is expected.
None == 0

Guilds == 1..NumGuilds

\* Channel ids are globally unique.  Guild 1 owns voice channels 1 and 5 and
\* text channel 2; every further guild g owns voice channel 10g+1 and text
\* channel 10g+2.
VoiceChannelsOf(g) == IF g = 1 THEN {1, 5} ELSE {10 * g + 1}
TextChannelsOf(g) == IF g = 1 THEN {2} ELSE {10 * g + 2}
ChannelsOf(g) == VoiceChannelsOf(g) \cup TextChannelsOf(g)
AllChannels == UNION {ChannelsOf(g) : g \in Guilds}

\* guild.get_channel(id): the guild's channel with that id, or None.
GuildGetChannel(g, id) == IF id \in ChannelsOf(g) THEN id ELSE None

\* bot.get_channel(id): the channel with that id in any guild, or None.
BotGetChannel(id) == IF id \in AllChannels THEN id ELSE None

\* Members of a voice channel: the bot itself (guild.me), another bot, a human.
Me == "me"
Members == {"me", "bot", "human"}
IsBot(m) == m \in {"me", "bot"}

\* channel.members: a list of distinct members (the model lists them in one
\* fixed order)
MemberLists ==
  {SelectSeq(<<"me", "bot", "human">>, LAMBDA m : m \in S) : S \in SUBSET Members}

\* any(not m.bot for m in channel.members)
AnyNonBot(ms) == \E i \in DOMAIN ms : ~IsBot(ms[i])

(* ---------------- dictionaries ---------------- *)
Put(d, k, v) == [x \in DOMAIN d \cup {k} |-> IF x = k THEN v ELSE d[x]]
Del(d, k) == [x \in DOMAIN d \ {k} |-> d[x]]
Get(d, k, dflt) == IF k \in DOMAIN d THEN d[k] ELSE dflt
EmptyDict == [x \in {} |-> None]

(* ---------------- int(token) ---------------- *)
DigitVal == [c \in {"0", "1", "2", "3", "4", "5", "6", "7", "8", "9"} |->
               CASE c = "0" -> 0 [] c = "1" -> 1 [] c = "2" -> 2 [] c = "3" -> 3
                 [] c = "4" -> 4 [] c = "5" -> 5 [] c = "6" -> 6 [] c = "7" -> 7
                 [] c = "8" -> 8 [] c = "9" -> 9]
IsDigit(c) == c \in DOMAIN DigitVal

RECURSIVE DigitsValue(_)
DigitsValue(s) ==
  IF s = <<>> THEN 0
  ELSE 10 * DigitsValue(SubSeq(s, 1, Len(s) - 1)) + DigitVal[s[Len(s)]]

\* A command token is a sequence of characters.  Python's int(): an optional
\* sign, then one or more decimal digits; anything else raises ValueError.
Unsigned(tok) == IF tok # <<>> /\ tok[1] \in {"+", "-"} THEN Tail(tok) ELSE tok
IntParses(tok) ==
  LET digits == Unsigned(tok)
  IN  /\ digits # <<>>
      /\ \A i \in DOMAIN digits : IsDigit(digits[i])
IntValue(tok) ==
  IF tok[1] = "-" THEN 0 - DigitsValue(Unsigned(tok)) ELSE DigitsValue(Unsigned(tok))

\* [int(cid) for cid in channel_ids]
IntList(channel_ids) == [i \in DOMAIN channel_ids |-> IntValue(channel_ids[i])]
AllParse(channel_ids) == \A i \in DOMAIN channel_ids : IntParses(channel_ids[i])

\* the tokens the model feeds to the setter commands
Tokens == {<<"1">>, <<"0", "2">>, <<"1", "x">>}
ArgLists == UNION {[1..n -> Tokens] : n \in 0..MaxArgs}

(* ---------------- configuration ---------------- *)
\* The placeholder id of default_config (123456789012345678 in the source,
\* scaled to the integers TLC has); it names no channel.
DEFAULT_CHANNEL_ID == 1234567
default_config ==
  [k \in {"allowed_voice_channels", "SUMMARY_CHANNEL_ID", "TRANSCRIPT_CHANNEL_ID"} |->
     IF k = "allowed_voice_channels" THEN <<>> ELSE DEFAULT_CHANNEL_ID]

VARIABLES
  connections,              \* guild id -> [vc, summary_channel]
  allowed_voice_channels,   \* list of channel ids
  SUMMARY_CHANNEL_ID,
  TRANSCRIPT_CHANNEL_ID,
  config,                   \* the in-memory config document
  config_file,              \* config.json: [state, doc]
  pending,                  \* bag of handlers suspended in channel.connect()
  vcs,                      \* voice connection -> what start_recording was given
  runs,                     \* voice connection -> its once_done run
  last                      \* what the handler that ran last answered or logged

vars == <<connections, allowed_voice_channels, SUMMARY_CHANNEL_ID,
          TRANSCRIPT_CHANNEL_ID, config, config_file, pending, vcs, runs, last>>

cfgVars == <<allowed_voice_channels, SUMMARY_CHANNEL_ID, TRANSCRIPT_CHANNEL_ID,
             config, config_file>>
sessVars == <<connections, pending, vcs, runs>>

\* config.json as found at start-up: absent, or one of these documents
\* (all but the first lack keys)
StoredDocs ==
  { default_config,
    EmptyDict,
    [k \in {"allowed_voice_channels", "SUMMARY_CHANNEL_ID"} |->
       IF k = "allowed_voice_channels" THEN <<1>> ELSE 2],
    [k \in {"allowed_voice_channels"} |-> <<1>>] }

\* lines 59-69: load the file, or write the defaults
LoadConfig(present, doc) ==
  /\ config = (IF present THEN doc ELSE default_config)
  /\ config_file = [state |-> "ok", doc |-> config]
  /\ allowed_voice_channels = Get(config, "allowed_voice_channels", <<>>)
  /\ SUMMARY_CHANNEL_ID =
       Get(config, "SUMMARY_CHANNEL_ID", default_config["SUMMARY_CHANNEL_ID"])
  /\ TRANSCRIPT_CHANNEL_ID =
       Get(config, "TRANSCRIPT_CHANNEL_ID", default_config["TRANSCRIPT_CHANNEL_ID"])

\* with open(CONFIG_FILE, "w") as f: json.dump(config, f): open() truncates
\* the file before anything is written, and either call can raise OSError.
WriteOutcomes == {"ok", "open_fails", "dump_fails"}
WriteFile(doc, io) ==
  config_file' = CASE io = "ok" -> [state |-> "ok", doc |-> doc]
                   [] io = "open_fails" -> config_file
                   [] io = "dump_fails" -> [state |-> "truncated", doc |-> EmptyDict]

\* the reply sent with ctx.send, or the line logged, by the handler
Said(op, text) == last' = [op |-> op, text |-> text]

\* the bug of filling the global list one id at a time: the ids before the
\* first invalid token are stored before the error is raised
ParsedPrefix(channel_ids) ==
  SubSeq(channel_ids, 1,
         Cardinality({i \in DOMAIN channel_ids :
                        \A j \in 1..i : IntParses(channel_ids[j])}))
SetAutoRecordChannelsAppending(channel_ids, io) ==
  /\ UNCHANGED sessVars
  /\ IF ~AllParse(channel_ids)
     THEN /\ Said("set_auto_record_channels",
                  "Invalid channel ID provided in one or more inputs!")
          /\ allowed_voice_channels' = IntList(ParsedPrefix(channel_ids))
          /\ UNCHANGED <<SUMMARY_CHANNEL_ID, TRANSCRIPT_CHANNEL_ID, config, config_file>>
     ELSE /\ allowed_voice_channels' = IntList(channel_ids)
          /\ config' = Put(config, "allowed_voice_channels", allowed_voice_channels')
          /\ WriteFile(config', io)
          /\ Said("set_auto_record_channels",
                  IF io = "ok" THEN "Auto record channels updated" ELSE "OSError")
          /\ UNCHANGED <<SUMMARY_CHANNEL_ID, TRANSCRIPT_CHANNEL_ID>>

\* the bug of tearing down the sessions whose channel left the list
SetAutoRecordChannelsStopping(channel_ids, io) ==
  /\ UNCHANGED pending
  /\ IF ~AllParse(channel_ids)
     THEN /\ Said("set_auto_record_channels",
                  "Invalid channel ID provided in one or more inputs!")
          /\ UNCHANGED cfgVars
          /\ UNCHANGED <<connections, vcs, runs>>
     ELSE /\ allowed_voice_channels' = IntList(channel_ids)
          /\ config' = Put(config, "allowed_voice_channels", allowed_voice_channels')
          /\ WriteFile(config', io)
          /\ Said("set_auto_record_channels",
                  IF io = "ok" THEN "Auto record channels updated" ELSE "OSError")
          /\ UNCHANGED <<SUMMARY_CHANNEL_ID, TRANSCRIPT_CHANNEL_ID>>
          /\ connections' =
               [g \in {x \in DOMAIN connections :
                         \E i \in DOMAIN allowed_voice_channels' :
                            allowed_voice_channels'[i] = vcs[connections[x].vc].channel}
                  |-> connections[g]]
          /\ UNCHANGED <<vcs, runs>>

\* set_auto_record_channels, lines 117-129
SetAutoRecordChannels(channel_ids, io) ==
  /\ UNCHANGED sessVars
  /\ IF ~AllParse(channel_ids)
     THEN /\ Said("set_auto_record_channels",
                  "Invalid channel ID provided in one or more inputs!")
          /\ UNCHANGED cfgVars
     ELSE /\ allowed_voice_channels' = IntList(channel_ids)
          /\ config' = Put(config, "allowed_voice_channels", allowed_voice_channels')
          /\ WriteFile(config', io)
          /\ Said("set_auto_record_channels",
                  IF io = "ok" THEN "Auto record channels updated" ELSE "OSError")
          /\ UNCHANGED <<SUMMARY_CHANNEL_ID, TRANSCRIPT_CHANNEL_ID>>

\* set_summary_channel, lines 131-144
SetSummaryChannel(channel_id, io) ==
  /\ UNCHANGED sessVars
  /\ IF ~IntParses(channel_id)
     THEN /\ Said("set_summary_channel", "Invalid channel ID provided!")
          /\ UNCHANGED cfgVars
     ELSE /\ SUMMARY_CHANNEL_ID' = IntValue(channel_id)
          /\ config' = Put(config, "SUMMARY_CHANNEL_ID", SUMMARY_CHANNEL_ID')
          /\ WriteFile(config', io)
          /\ Said("set_summary_channel",
                  IF io = "ok" THEN "Summary channel set" ELSE "OSError")
          /\ UNCHANGED <<allowed_voice_channels, TRANSCRIPT_CHANNEL_ID>>

\* set_transcript_channel, lines 146-159
SetTranscriptChannel(channel_id, io) ==
  /\ UNCHANGED sessVars
  /\ IF ~IntParses(channel_id)
     THEN /\ Said("set_transcript_channel", "Invalid channel ID provided!")
          /\ UNCHANGED cfgVars
     ELSE /\ TRANSCRIPT_CHANNEL_ID' = IntValue(channel_id)
          /\ config' = Put(config, "TRANSCRIPT_CHANNEL_ID", TRANSCRIPT_CHANNEL_ID')
          /\ WriteFile(config', io)
          /\ Said("set_transcript_channel",
                  IF io = "ok" THEN "Transcript channel set" ELSE "OSError")
          /\ UNCHANGED <<allowed_voice_channels, SUMMARY_CHANNEL_ID>>

(* ---------------- recording sessions ---------------- *)
\* the users whose audio a sink can hold, and sink.audio_data as the list of
\* its keys in iteration order
Speakers == 1..MaxSpeakers
AudioSets ==
  {s \in UNION {[1..n -> Speakers] : n \in 0..MaxSpeakers} :
     \A i, j \in DOMAIN s : i # j => s[i] # s[j]}

InitSessions ==
  /\ connections = EmptyDict
  /\ pending = EmptyBag
  /\ vcs = EmptyDict
  /\ runs = EmptyDict
  /\ last = [op |-> "on_ready", text |-> "Logged in"]

Init ==
  /\ \E present \in BOOLEAN : \E doc \in StoredDocs : LoadConfig(present, doc)
  /\ InitSessions

\* a handler reaches `await channel.connect()` and is suspended there
Suspend(h) ==
  /\ BagCardinality(pending) < MaxPending
  /\ pending' = pending (+) SetToBag({h})

\* connect() returns a connection object that did not exist before
NewVc == Cardinality(DOMAIN vcs) + 1

\* lines 94-100 and 207-213: the registry insert and vc.start_recording(sink,
\* once_done, channel)
Register(g, vc, voice_channel, channel, mode) ==
  /\ connections' = Put(connections, g, [vc |-> vc, summary_channel |-> channel])
  /\ vcs' = Put(vcs, vc, [guild |-> g, channel |-> voice_channel, mode |-> mode,
                          dest |-> channel, recording |-> TRUE, stops |-> 0])

\* vc.stop_recording(): capture ends and the library schedules the callback
\* once_done(sink, channel) that start_recording was given
StopCapture(vc) ==
  /\ vcs' = [vcs EXCEPT ![vc].recording = FALSE, ![vc].stops = @ + 1]
  /\ runs' = Put(runs, vc, [pc |-> "scheduled", audio |-> <<>>,
                            transcripts |-> <<>>, summarized |-> "no",
                            summary_sent |-> None, transcript_channel |-> None,
                            transcript_sent |-> None, log |-> ""])

\* the bug of registering before the voice state is looked at: the command
\* goes to connect() whether or not the invoker is in a voice channel
RecordWithoutVoiceCheck(g, voice, channel) ==
  /\ UNCHANGED cfgVars
  /\ UNCHANGED <<connections, vcs, runs>>
  /\ Suspend([kind |-> "record", guild |-> g, channel |-> voice,
              dest |-> channel, had_session |-> g \in DOMAIN connections])
  /\ Said("record", "Connecting to voice channel")

\* the bug of a new record that cancels the guild's unfinished pipeline runs
RecordCancelling(g, voice, channel) ==
  /\ UNCHANGED cfgVars
  /\ UNCHANGED <<connections, vcs>>
  /\ IF voice = None
     THEN /\ Said("record", "You aren't in a voice channel!")
          /\ UNCHANGED <<pending, runs>>
     ELSE /\ Suspend([kind |-> "record", guild |-> g, channel |-> voice,
                      dest |-> channel, had_session |-> g \in DOMAIN connections])
          /\ runs' = [vc \in {v \in DOMAIN runs :
                               vcs[v].guild # g \/ runs[v].pc = "done"} |-> runs[vc]]
          /\ Said("record", "Connecting to voice channel")

\* record, lines 80-88: up to the await of connect()
Record(g, voice, channel) ==
  /\ UNCHANGED cfgVars
  /\ UNCHANGED <<connections, vcs, runs>>
  /\ IF voice = None
     THEN /\ Said("record", "You aren't in a voice channel!")
          /\ UNCHANGED pending
     ELSE /\ Suspend([kind |-> "record", guild |-> g, channel |-> voice,
                      dest |-> channel, had_session |-> g \in DOMAIN connections])
          /\ Said("record", "Connecting to voice channel")

\* record, lines 88-101: connect() returns or raises
RecordConnected(h, ok) ==
  /\ h \in BagToSet(pending)
  /\ h.kind = "record"
  /\ pending' = pending (-) SetToBag({h})
  /\ UNCHANGED cfgVars
  /\ UNCHANGED runs
  /\ IF ok
     THEN /\ NewVc <= MaxVc
          /\ Register(h.guild, NewVc, h.channel, h.dest, "manual")
          /\ Said("record", "Listening to this conversation.")
     ELSE /\ Said("record", "Failed to connect to the voice channel.")
          /\ UNCHANGED <<connections, vcs>>

\* the bug of testing `if connections:` instead of the guild's key
StopRecordingAnySession(g) ==
  /\ UNCHANGED cfgVars
  /\ UNCHANGED pending
  /\ IF connections # EmptyDict
     THEN \E k \in DOMAIN connections :
            /\ StopCapture(connections[k].vc)
            /\ connections' = Del(connections, k)
            /\ Said("stop_recording", "Stopped recording.")
     ELSE /\ Said("stop_recording", "Not recording here.")
          /\ UNCHANGED <<connections, vcs, runs>>

\* stop_recording, lines 104-114
StopRecording(g) ==
  /\ UNCHANGED cfgVars
  /\ UNCHANGED pending
  /\ IF g \in DOMAIN connections
     THEN /\ StopCapture(connections[g].vc)
          /\ connections' = Del(connections, g)
          /\ Said("stop_recording", "Stopped recording.")
     ELSE /\ Said("stop_recording", "Not recording here.")
          /\ UNCHANGED <<connections, vcs, runs>>

\* channel_id in allowed_voice_channels
InList(id, list) == \E i \in DOMAIN list : list[i] = id

\* the bug of not looking for a non-bot member
JoinStartsAnyMember(g, before, after, members) ==
  /\ before = None /\ after # None
  /\ InList(after, allowed_voice_channels)
  /\ g \notin DOMAIN connections

\* lines 201-203: the join branch is taken up to the connect; `members` is
\* after.channel.members
JoinStarts(g, before, after, members) ==
  /\ before = None /\ after # None
  /\ InList(after, allowed_voice_channels)
  /\ g \notin DOMAIN connections
  /\ AnyNonBot(members)

\* the bug of an auto-stop that does not ask whether the channel is allowed
LeaveStopsAnyChannel(g, before, members) ==
  /\ before # None
  /\ members = <<Me>>
  /\ g \in DOMAIN connections

\* lines 216-218: the auto-stop branch is taken; `members` is
\* before.channel.members
LeaveStops(g, before, members) ==
  /\ before # None
  /\ InList(before, allowed_voice_channels)
  /\ members = <<Me>>
  /\ g \in DOMAIN connections

\* the bug of leaving the registry entry in place after the auto-stop
OnVoiceStateUpdateKeepsEntry(g, before, after, members) ==
  /\ UNCHANGED cfgVars
  /\ IF JoinStarts(g, before, after, members)
     THEN /\ Suspend([kind |-> "join", guild |-> g, channel |-> after,
                      dest |-> None, had_session |-> FALSE])
          /\ Said("on_voice_state_update", "Auto-record: Connecting...")
          /\ UNCHANGED <<connections, vcs, runs>>
     ELSE IF LeaveStops(g, before, members)
     THEN /\ StopCapture(connections[g].vc)
          /\ Said("on_voice_state_update", "Auto-recording stopped")
          /\ UNCHANGED <<connections, pending>>
     ELSE /\ Said("on_voice_state_update", "ignored")
          /\ UNCHANGED sessVars

\* on_voice_state_update, lines 197-226, up to the await of connect() if the
\* join branch is taken, the whole handler otherwise.  The handler reads the
\* member list of one channel only: after.channel's when before.channel is
\* None, before.channel's otherwise; `members` is that list.
OnVoiceStateUpdate(g, before, after, members) ==
  /\ UNCHANGED cfgVars
  /\ IF JoinStarts(g, before, after, members)
     THEN /\ Suspend([kind |-> "join", guild |-> g, channel |-> after,
                      dest |-> None, had_session |-> FALSE])
          /\ Said("on_voice_state_update", "Auto-record: Connecting...")
          /\ UNCHANGED <<connections, vcs, runs>>
     ELSE IF LeaveStops(g, before, members)
     THEN /\ StopCapture(connections[g].vc)
          /\ connections' = Del(connections, g)
          /\ Said("on_voice_state_update", "Auto-recording stopped")
          /\ UNCHANGED pending
     ELSE /\ Said("on_voice_state_update",
                  IF /\ before = None /\ after # None
                     /\ InList(after, allowed_voice_channels)
                     /\ g \notin DOMAIN connections
                  THEN "ignored: no non-bot member" ELSE "ignored")
          /\ UNCHANGED sessVars

\* on_voice_state_update, lines 216-226, when vc.stop_recording() raises in the
\* auto-stop branch: the del of line 223 is not reached and the except clause
\* logs
OnVoiceStateUpdateStopRaises(g, before, after, members) ==
  /\ ~JoinStarts(g, before, after, members)
  /\ LeaveStops(g, before, members)
  /\ Said("on_voice_state_update", "Error in on_voice_state_update")
  /\ UNCHANGED sessVars
  /\ UNCHANGED cfgVars

\* the bug of a handler without the try/except: the exception of connect()
\* leaves the handler
AutoRecordConnectedUncaught(h, ok) ==
  /\ h \in BagToSet(pending)
  /\ h.kind = "join"
  /\ pending' = pending (-) SetToBag({h})
  /\ UNCHANGED cfgVars
  /\ UNCHANGED runs
  /\ IF ok
     THEN /\ NewVc <= MaxVc
          /\ Register(h.guild, NewVc, h.channel,
                      GuildGetChannel(h.guild, SUMMARY_CHANNEL_ID), "auto")
          /\ Said("on_voice_state_update", "Auto-recording started")
     ELSE /\ Said("on_voice_state_update", "exception raised out of the handler")
          /\ UNCHANGED <<connections, vcs>>

\* on_voice_state_update, lines 205-214 and 225-226: connect() returns or raises
AutoRecordConnected(h, ok) ==
  /\ h \in BagToSet(pending)
  /\ h.kind = "join"
  /\ pending' = pending (-) SetToBag({h})
  /\ UNCHANGED cfgVars
  /\ UNCHANGED runs
  /\ IF ok
     THEN /\ NewVc <= MaxVc
          /\ Register(h.guild, NewVc, h.channel,
                      GuildGetChannel(h.guild, SUMMARY_CHANNEL_ID), "auto")
          /\ Said("on_voice_state_update", "Auto-recording started")
     ELSE /\ Said("on_voice_state_update", "Error in on_voice_state_update")
          /\ UNCHANGED <<connections, vcs>>

(* ---------------- the completion pipeline: once_done ---------------- *)
Sentinel == "[Error transcribing audio]"
\* response.get("text", "") for a user's audio
Heard(user_id) == "text of " \o ToString(user_id)

\* the bug of `continue` in the except clause: a failed speaker gets no entry
RECURSIVE TranscribeLoopSkipping(_, _, _, _)
TranscribeLoopSkipping(audio, results, i, transcripts) ==
  IF i > Len(audio) THEN transcripts
  ELSE TranscribeLoopSkipping(audio, results, i + 1,
         IF results[i] = "ok"
         THEN Append(transcripts, <<audio[i], Heard(audio[i])>>)
         ELSE transcripts)

\* lines 236-259: the loop over sink.audio_data.items(); results[i] tells
\* whether the i-th openai.Audio.transcribe call returns or raises
RECURSIVE TranscribeLoop(_, _, _, _)
TranscribeLoop(audio, results, i, transcripts) ==
  IF i > Len(audio) THEN transcripts
  ELSE TranscribeLoop(audio, results, i + 1,
         Append(transcripts,
                <<audio[i], IF results[i] = "ok" THEN Heard(audio[i]) ELSE Sentinel>>))

\* the run holds the captured audio and the transcript up to the
\* summarization call; what the two messages say is not modelled, only where
\* they go
Sent(r) == [r EXCEPT !.audio = <<>>, !.transcripts = <<>>]
Finish(r, log) == [Sent(r) EXCEPT !.pc = "done", !.log = log]

\* lines 231-234: the callback starts; sink.audio_data holds what was
\* captured, and the run is suspended in sink.vc.disconnect()
OnceDoneStarts(vc, audio) ==
  /\ vc \in DOMAIN runs
  /\ runs[vc].pc = "scheduled"
  /\ runs' = [runs EXCEPT ![vc] = [runs[vc] EXCEPT !.pc = "disconnect", !.audio = audio]]
  /\ UNCHANGED <<connections, pending, vcs, last>>
  /\ UNCHANGED cfgVars

\* lines 234-269: sink.vc.disconnect() returns or raises; if it returns, the
\* transcription loop runs (its calls are synchronous) up to the await of the
\* summarization call
OnceDoneDisconnected(vc, ok, results) ==
  /\ vc \in DOMAIN runs
  /\ runs[vc].pc = "disconnect"
  /\ runs' = [runs EXCEPT ![vc] =
       IF ok
       THEN [runs[vc] EXCEPT !.pc = "summarize",
               !.transcripts = TranscribeLoop(runs[vc].audio, results, 1, <<>>)]
       ELSE Finish(runs[vc], "Error in once_done")]
  /\ UNCHANGED <<connections, pending, vcs, last>>
  /\ UNCHANGED cfgVars

\* the bug of the two posts in the other order: the transcript goes out first
OnceDoneSummarizedTranscriptFirst(vc, ok) ==
  /\ vc \in DOMAIN runs
  /\ runs[vc].pc = "summarize"
  /\ runs' = [runs EXCEPT ![vc] =
       IF ~ok
       THEN Finish([runs[vc] EXCEPT !.summarized = "failed"], "Error in once_done")
       ELSE IF BotGetChannel(TRANSCRIPT_CHANNEL_ID) = None
       THEN Finish([runs[vc] EXCEPT !.summarized = "ok"], "Transcript channel not found!")
       ELSE [Sent(runs[vc]) EXCEPT !.summarized = "ok", !.pc = "post_transcript",
               !.transcript_channel = BotGetChannel(TRANSCRIPT_CHANNEL_ID)]]
  /\ UNCHANGED <<connections, pending, vcs, last>>
  /\ UNCHANGED cfgVars

\* the bug of falling back to the transcript post when summarization fails
OnceDoneSummarizedTranscriptOnly(vc, ok) ==
  /\ vc \in DOMAIN runs
  /\ runs[vc].pc = "summarize"
  /\ runs' = [runs EXCEPT ![vc] =
       IF ~ok
       THEN [Sent(runs[vc]) EXCEPT !.summarized = "failed", !.pc = "post_transcript",
               !.transcript_channel = BotGetChannel(TRANSCRIPT_CHANNEL_ID)]
       ELSE IF vcs[vc].dest = None
       THEN Finish([runs[vc] EXCEPT !.summarized = "ok"], "Error in once_done")
       ELSE [Sent(runs[vc]) EXCEPT !.summarized = "ok", !.pc = "post_summary"]]
  /\ UNCHANGED <<connections, pending, vcs, last>>
  /\ UNCHANGED cfgVars

\* lines 269-290: the summarization call returns or raises; if it returns,
\* channel.send(summary_message) is called: on a channel that is None
\* that raises at once
OnceDoneSummarized(vc, ok) ==
  /\ vc \in DOMAIN runs
  /\ runs[vc].pc = "summarize"
  /\ runs' = [runs EXCEPT ![vc] =
       IF ~ok
       THEN Finish([runs[vc] EXCEPT !.summarized = "failed"], "Error in once_done")
       ELSE IF vcs[vc].dest = None
       THEN Finish([runs[vc] EXCEPT !.summarized = "ok"], "Error in once_done")
       ELSE [Sent(runs[vc]) EXCEPT !.summarized = "ok", !.pc = "post_summary"]]
  /\ UNCHANGED <<connections, pending, vcs, last>>
  /\ UNCHANGED cfgVars

\* the bug of a cached transcript channel: the run uses the channel it held
\* when it was scheduled instead of looking TRANSCRIPT_CHANNEL_ID up
OnceDoneSummarySentCached(vc, ok) ==
  /\ vc \in DOMAIN runs
  /\ runs[vc].pc = "post_summary"
  /\ runs' = [runs EXCEPT ![vc] =
       IF ~ok THEN Finish(runs[vc], "Error in once_done")
       ELSE IF runs[vc].transcript_channel = None
       THEN Finish([runs[vc] EXCEPT !.summary_sent = vcs[vc].dest],
                   "Transcript channel not found!")
       ELSE [runs[vc] EXCEPT !.summary_sent = vcs[vc].dest,
                      !.pc = "post_transcript"]]
  /\ UNCHANGED <<connections, pending, vcs, last>>
  /\ UNCHANGED cfgVars

\* the bug of looking the summary channel up again at post time
OnceDoneSummarySentCurrentChannel(vc, ok) ==
  /\ vc \in DOMAIN runs
  /\ runs[vc].pc = "post_summary"
  /\ runs' = [runs EXCEPT ![vc] =
       IF ~ok THEN Finish(runs[vc], "Error in once_done")
       ELSE IF BotGetChannel(TRANSCRIPT_CHANNEL_ID) = None
       THEN Finish([runs[vc] EXCEPT !.summary_sent =
                       GuildGetChannel(vcs[vc].guild, SUMMARY_CHANNEL_ID)],
                   "Transcript channel not found!")
       ELSE [runs[vc] EXCEPT !.summary_sent =
                         GuildGetChannel(vcs[vc].guild, SUMMARY_CHANNEL_ID),
                      !.transcript_channel = BotGetChannel(TRANSCRIPT_CHANNEL_ID),
                      !.pc = "post_transcript"]]
  /\ UNCHANGED <<connections, pending, vcs, last>>
  /\ UNCHANGED cfgVars

\* the bug of sending to the transcript channel without the `if`: on None the
\* send raises and the run ends in the except clause
OnceDoneSummarySentUnchecked(vc, ok) ==
  /\ vc \in DOMAIN runs
  /\ runs[vc].pc = "post_summary"
  /\ runs' = [runs EXCEPT ![vc] =
       IF ~ok THEN Finish(runs[vc], "Error in once_done")
       ELSE IF BotGetChannel(TRANSCRIPT_CHANNEL_ID) = None
       THEN Finish([runs[vc] EXCEPT !.summary_sent = vcs[vc].dest],
                   "Error in once_done")
       ELSE [runs[vc] EXCEPT !.summary_sent = vcs[vc].dest,
                      !.transcript_channel = BotGetChannel(TRANSCRIPT_CHANNEL_ID),
                      !.pc = "post_transcript"]]
  /\ UNCHANGED <<connections, pending, vcs, last>>
  /\ UNCHANGED cfgVars

\* lines 290-301: the summary post returns or raises; if it returns, the
\* transcript channel is looked up and the transcript post is called
OnceDoneSummarySent(vc, ok) ==
  /\ vc \in DOMAIN runs
  /\ runs[vc].pc = "post_summary"
  /\ runs' = [runs EXCEPT ![vc] =
       IF ~ok THEN Finish(runs[vc], "Error in once_done")
       ELSE IF BotGetChannel(TRANSCRIPT_CHANNEL_ID) = None
       THEN Finish([runs[vc] EXCEPT !.summary_sent = vcs[vc].dest],
                   "Transcript channel not found!")
       ELSE [runs[vc] EXCEPT !.summary_sent = vcs[vc].dest,
                      !.transcript_channel = BotGetChannel(TRANSCRIPT_CHANNEL_ID),
                      !.pc = "post_transcript"]]
  /\ UNCHANGED <<connections, pending, vcs, last>>
  /\ UNCHANGED cfgVars

\* lines 299-304: the transcript post returns or raises
OnceDoneTranscriptSent(vc, ok) ==
  /\ vc \in DOMAIN runs
  /\ runs[vc].pc = "post_transcript"
  /\ runs' = [runs EXCEPT ![vc] =
       IF ok
       THEN Finish([runs[vc] EXCEPT !.transcript_sent = runs[vc].transcript_channel], "")
       ELSE Finish(runs[vc], "Error in once_done")]
  /\ UNCHANGED <<connections, pending, vcs, last>>
  /\ UNCHANGED cfgVars

(* ---------------- the specification ---------------- *)
\* the command handlers of the session registry
Commands ==
  \/ \E g \in Guilds :
        \E voice \in VoiceChannelsOf(g) \cup {None}, channel \in TextChannelsOf(g) :
           Record(g, voice, channel)
  \/ \E h \in BagToSet(pending), ok \in BOOLEAN : RecordConnected(h, ok)
  \/ \E g \in Guilds : StopRecording(g)

\* the presence trigger
VoiceEvents ==
  \/ \E g \in Guilds :
        \E before \in VoiceChannelsOf(g) \cup {None},
           after \in VoiceChannelsOf(g) \cup {None},
           members \in MemberLists :
           /\ before # None \/ after # None
           /\ OnVoiceStateUpdate(g, before, after, members)
  \/ \E h \in BagToSet(pending), ok \in BOOLEAN : AutoRecordConnected(h, ok)

\* the setter commands
Setters ==
  \/ \E ids \in ArgLists, io \in WriteOutcomes : SetAutoRecordChannels(ids, io)
  \/ \E id \in Tokens, io \in WriteOutcomes : SetSummaryChannel(id, io)
  \/ \E id \in Tokens, io \in WriteOutcomes : SetTranscriptChannel(id, io)

\* the steps of the completion callback
Pipeline ==
  \/ \E vc \in DOMAIN runs, audio \in AudioSets : OnceDoneStarts(vc, audio)
  \/ \E vc \in DOMAIN runs, ok \in BOOLEAN,
        results \in [1..MaxSpeakers -> {"ok", "error"}] :
        OnceDoneDisconnected(vc, ok, results)
  \/ \E vc \in DOMAIN runs, ok \in BOOLEAN : OnceDoneSummarized(vc, ok)
  \/ \E vc \in DOMAIN runs, ok \in BOOLEAN : OnceDoneSummarySent(vc, ok)
  \/ \E vc \in DOMAIN runs, ok \in BOOLEAN : OnceDoneTranscriptSent(vc, ok)

Next == Commands \/ VoiceEvents \/ Setters \/ Pipeline

Spec == Init /\ [][Next]_vars

NextSession == Commands \/ VoiceEvents
SpecSession == Init /\ [][NextSession]_vars

NextConfig == Setters
SpecConfig == Init /\ [][NextConfig]_vars

\* The completion pipeline, explored from the states in which recordings are
\* under way: each guild of G0 has a session that record (manual) or the join
\* trigger (auto) registered, in guild order, and no handler is suspended.
StartedSessions(g) ==
  {[mode |-> "manual", channel |-> c, dest |-> d] :
     c \in VoiceChannelsOf(g), d \in TextChannelsOf(g)}
  \cup
  {[mode |-> "auto", channel |-> c,
    dest |-> GuildGetChannel(g, SUMMARY_CHANNEL_ID)] :
     c \in {x \in VoiceChannelsOf(g) : InList(x, allowed_voice_channels)}}

VcOf(G0, g) == Cardinality({x \in G0 : x <= g})
GuildOf(G0, vc) == CHOOSE g \in G0 : VcOf(G0, g) = vc

Recording(G0, started) ==
  /\ connections = [g \in G0 |-> [vc |-> VcOf(G0, g), summary_channel |-> started[g].dest]]
  /\ vcs = [vc \in 1..Cardinality(G0) |->
              [guild |-> GuildOf(G0, vc), channel |-> started[GuildOf(G0, vc)].channel,
               mode |-> started[GuildOf(G0, vc)].mode,
               dest |-> started[GuildOf(G0, vc)].dest,
               recording |-> TRUE, stops |-> 0]]
  /\ pending = EmptyBag
  /\ runs = EmptyDict
  /\ last = IF vcs[Cardinality(G0)].mode = "manual"
            THEN [op |-> "record", text |-> "Listening to this conversation."]
            ELSE [op |-> "on_voice_state_update", text |-> "Auto-recording started"]

InitPipeline ==
  /\ \E present \in BOOLEAN : \E doc \in StoredDocs : LoadConfig(present, doc)
  /\ \E G0 \in SUBSET Guilds :
       /\ G0 # {}
       /\ Cardinality(G0) <= MaxVc
       /\ \E started \in [G0 -> UNION {StartedSessions(g) : g \in G0}] :
            /\ \A g \in G0 : started[g] \in StartedSessions(g)
            /\ Recording(G0, started)

NextPipeline ==
  \/ \E g \in Guilds : StopRecording(g)
  \/ \E g \in Guilds :
        \E before \in VoiceChannelsOf(g), after \in VoiceChannelsOf(g) \cup {None},
           members \in MemberLists :
           OnVoiceStateUpdate(g, before, after, members)
  \/ \E id \in Tokens : SetTranscriptChannel(id, "ok")
  \/ Pipeline

SpecPipeline == InitPipeline /\ [][NextPipeline]_vars

\* The presence trigger with the allowed list changing under it: join and
\* leave events, stop_recording and set_auto_record_channels.
NextAuto ==
  \/ VoiceEvents
  \/ \E g \in Guilds : StopRecording(g)
  \/ \E ids \in ArgLists : SetAutoRecordChannels(ids, "ok")

SpecAuto == Init /\ [][NextAuto]_vars

\* The session handlers with the failure of vc.stop_recording() in the
\* auto-stop branch added to the failures of connect().
NextFaults ==
  \/ NextSession
  \/ \E g \in Guilds :
        \E before \in VoiceChannelsOf(g), after \in VoiceChannelsOf(g) \cup {None} :
           OnVoiceStateUpdateStopRaises(g, before, after, <<Me>>)

SpecFaults == Init /\ [][NextFaults]_vars

\* One guild's sessions from start to the summary post, with
\* set_summary_channel arriving in between.  The configuration loaded has an
\* allowed channel; every capture holds one speaker; the disconnect, the
\* transcription and the summarization succeed.
DestGuild == 1
InitDest ==
  /\ \E doc \in {d \in StoredDocs : Get(d, "allowed_voice_channels", <<>>) # <<>>} :
        LoadConfig(TRUE, doc)
  /\ InitSessions

NextDest ==
  \/ \E voice \in VoiceChannelsOf(DestGuild), channel \in TextChannelsOf(DestGuild) :
        Record(DestGuild, voice, channel)
  \/ \E h \in BagToSet(pending), ok \in BOOLEAN : RecordConnected(h, ok)
  \/ StopRecording(DestGuild)
  \/ \E before \in VoiceChannelsOf(DestGuild) \cup {None},
        after \in VoiceChannelsOf(DestGuild) \cup {None},
        members \in {<<Me>>, <<Me, "human">>} :
        /\ before # None \/ after # None
        /\ OnVoiceStateUpdate(DestGuild, before, after, members)
  \/ \E h \in BagToSet(pending), ok \in BOOLEAN : AutoRecordConnected(h, ok)
  \/ \E id \in Tokens : SetSummaryChannel(id, "ok")
  \/ \E vc \in DOMAIN runs : OnceDoneStarts(vc, <<1>>)
  \/ \E vc \in DOMAIN runs :
        OnceDoneDisconnected(vc, TRUE, [i \in 1..MaxSpeakers |-> "ok"])
  \/ \E vc \in DOMAIN runs : OnceDoneSummarized(vc, TRUE)
  \/ \E vc \in DOMAIN runs, ok \in BOOLEAN : OnceDoneSummarySent(vc, ok)

SpecDest == InitDest /\ [][NextDest]_vars

\* Two guilds side by side, from start to the end of the pipeline.  The
\* configuration is not changed; every capture holds one speaker whose
\* transcription succeeds.  The event loop
\* runs a callback that is ready, and the external calls made for the guilds
\* other than StalledGuild return; nothing is assumed of the calls made for
\* StalledGuild, which may never return.
StalledGuild == 1

\* the bug of one pipeline at a time: a run takes no step while the run of an
\* earlier connection has not ended
RunStepSerial(vc) ==
  /\ \A v \in DOMAIN runs : v < vc => runs[v].pc = "done"
  /\ \/ OnceDoneStarts(vc, <<1>>)
     \/ \E ok \in BOOLEAN : OnceDoneDisconnected(vc, ok, [i \in 1..MaxSpeakers |-> "ok"])
     \/ \E ok \in BOOLEAN : OnceDoneSummarized(vc, ok)
     \/ \E ok \in BOOLEAN : OnceDoneSummarySent(vc, ok)
     \/ \E ok \in BOOLEAN : OnceDoneTranscriptSent(vc, ok)

\* the next step of the once_done run of connection vc
RunStep(vc) ==
  \/ OnceDoneStarts(vc, <<1>>)
  \/ \E ok \in BOOLEAN : OnceDoneDisconnected(vc, ok, [i \in 1..MaxSpeakers |-> "ok"])
  \/ \E ok \in BOOLEAN : OnceDoneSummarized(vc, ok)
  \/ \E ok \in BOOLEAN : OnceDoneSummarySent(vc, ok)
  \/ \E ok \in BOOLEAN : OnceDoneTranscriptSent(vc, ok)

\* a config.json that allows channel 1 and names text channel 2 for both the
\* summary and the transcript
StallDoc ==
  [k \in {"allowed_voice_channels", "SUMMARY_CHANNEL_ID", "TRANSCRIPT_CHANNEL_ID"} |->
     IF k = "allowed_voice_channels" THEN <<1>> ELSE 2]

InitStall ==
  /\ LoadConfig(TRUE, StallDoc)
  /\ InitSessions

NextStall ==
  \/ \E g \in Guilds :
        \E voice \in VoiceChannelsOf(g), channel \in TextChannelsOf(g) :
           Record(g, voice, channel)
  \/ \E h \in BagToSet(pending), ok \in BOOLEAN : RecordConnected(h, ok)
  \/ \E g \in Guilds : StopRecording(g)
  \/ \E g \in Guilds :
        \E before \in VoiceChannelsOf(g) \cup {None},
           after \in VoiceChannelsOf(g) \cup {None},
           members \in {<<Me>>, <<Me, "human">>} :
           /\ before # None \/ after # None
           /\ OnVoiceStateUpdate(g, before, after, members)
  \/ \E h \in BagToSet(pending), ok \in BOOLEAN : AutoRecordConnected(h, ok)
  \/ \E vc \in DOMAIN runs : RunStep(vc)

SpecStall ==
  /\ InitStall
  /\ [][NextStall]_vars
  /\ \A vc \in 1..MaxVc :
       WF_vars(vc \in DOMAIN vcs /\ vcs[vc].guild # StalledGuild /\ RunStep(vc))

\* Sessions that record starts, stopped by stop_recording or by a leave
\* event, with every external call of every run returning and the event loop
\* running every callback that is ready; the transcript channel
\* of the configuration loaded resolves (StallDoc) or does not (the stored
\* document without that key).
InitLive ==
  /\ \E doc \in {StallDoc} \cup
                {d \in StoredDocs : "SUMMARY_CHANNEL_ID" \in DOMAIN d
                                      /\ Get(d, "allowed_voice_channels", <<>>) # <<>>} :
        LoadConfig(TRUE, doc)
  /\ InitSessions

NextLive ==
  \/ \E g \in Guilds :
        \E voice \in VoiceChannelsOf(g), channel \in TextChannelsOf(g) :
           Record(g, voice, channel)
  \/ \E h \in BagToSet(pending), ok \in BOOLEAN : RecordConnected(h, ok)
  \/ \E g \in Guilds : StopRecording(g)
  \/ \E g \in Guilds :
        \E before \in VoiceChannelsOf(g), members \in {<<Me>>, <<Me, "human">>} :
           OnVoiceStateUpdate(g, before, None, members)
  \/ \E vc \in DOMAIN runs : RunStep(vc)

SpecLive ==
  /\ InitLive
  /\ [][NextLive]_vars
  /\ \A vc \in 1..MaxVc : WF_vars(vc \in DOMAIN runs /\ RunStep(vc))

(* ======================= the claims ======================= *)

\* C1 (as claimed): at most one session per guild, and a start attempt (record
\* command or auto-trigger join) for a guild that already has an active
\* session is refused with AlreadyRecording: it attempts no connect, and the
\* guild's registry entry (voice connection and destination) stays as it was.
C1_SecondStartRefused ==
  [][\A g \in Guilds : g \in DOMAIN connections =>
       /\ \A voice \in VoiceChannelsOf(g), channel \in TextChannelsOf(g) :
            Record(g, voice, channel) =>
              /\ pending' = pending
              /\ connections' = connections
              /\ last'.text = "Already recording."
       /\ \A after \in VoiceChannelsOf(g), members \in MemberLists :
            OnVoiceStateUpdate(g, None, after, members) =>
              /\ pending' = pending
              /\ connections' = connections
       /\ \A h \in BagToSet(pending) :
            (h.guild = g /\ h.had_session /\ RecordConnected(h, TRUE)) =>
              connections'[g] = connections[g]]_vars

\* C2 (as claimed): a start handler that found no session for its guild and
\* resumes from connect() when another start has registered one meanwhile
\* fails: it neither replaces the registry entry nor starts a recording.
C2_LateStartFails ==
  [][\A h \in BagToSet(pending) :
       (~h.had_session /\ h.guild \in DOMAIN connections) =>
         ((RecordConnected(h, TRUE) \/ AutoRecordConnected(h, TRUE)) =>
            /\ connections' = connections
            /\ vcs' = vcs)]_vars

\* C3: stop_recording for a guild without a session answers "Not recording
\* here.", stops no recording, schedules no completion callback and changes no
\* registry entry.
C3_StopWithoutSession ==
  [][\A g \in Guilds :
       (g \notin DOMAIN connections /\ StopRecording(g)) =>
         /\ last' = [op |-> "stop_recording", text |-> "Not recording here."]
         /\ UNCHANGED <<connections, vcs, runs, pending>>]_vars

\* the reply was given while another guild's session was active
C3_Witness ==
  /\ last = [op |-> "stop_recording", text |-> "Not recording here."]
  /\ connections # EmptyDict

\* C4: a leave event that takes the auto-stop branch (the channel left is
\* allowed, its member list is exactly the bot, the guild has a session) stops
\* the guild's session once: stop_recording() is called on its connection, the
\* callback is scheduled and the registry entry is removed; no connection ever
\* has its capture stopped twice, so later leave events or stop_recording
\* commands do not stop that session again.
C4_StoppedOnce ==
  /\ [](\A vc \in DOMAIN vcs : vcs[vc].stops <= 1)
  /\ [][\A g \in DOMAIN connections :
         \A before \in {c \in VoiceChannelsOf(g) : InList(c, allowed_voice_channels)},
            after \in VoiceChannelsOf(g) \cup {None} :
            OnVoiceStateUpdate(g, before, after, <<Me>>) =>
              /\ g \notin DOMAIN connections'
              /\ vcs'[connections[g].vc].stops = 1
              /\ ~vcs'[connections[g].vc].recording
              /\ connections[g].vc \notin DOMAIN runs
              /\ runs'[connections[g].vc].pc = "scheduled"
              /\ \A vc \in DOMAIN vcs \ {connections[g].vc} : vcs'[vc] = vcs[vc]]_vars

C4_Witness ==
  /\ last = [op |-> "on_voice_state_update", text |-> "Auto-recording stopped"]
  /\ \E vc \in DOMAIN vcs :
       /\ vcs[vc].stops = 1
       /\ vcs[vc].guild \notin DOMAIN connections
       /\ vc \in DOMAIN runs

BotOnlyLists == {m \in MemberLists : ~AnyNonBot(m)}

\* C5: no join event into a channel whose members are all bots changes the
\* registry, the suspended handlers, the connections or the runs; a join event
\* into an allowed channel with a non-bot member, for a guild without a
\* session, goes to connect(), and when that connect() returns the session is
\* registered with the configured summary channel and capture is started.
C5_JoinNeedsHuman ==
  [][/\ sessVars' # sessVars =>
          \A g \in Guilds : \A after \in VoiceChannelsOf(g) :
             \A members \in BotOnlyLists :
                ~OnVoiceStateUpdate(g, None, after, members)
     /\ \A g \in Guilds \ DOMAIN connections :
          \A after \in {c \in VoiceChannelsOf(g) : InList(c, allowed_voice_channels)} :
             \A members \in MemberLists \ BotOnlyLists :
                OnVoiceStateUpdate(g, None, after, members) =>
                  /\ pending' = pending (+) SetToBag({[kind |-> "join", guild |-> g,
                                  channel |-> after, dest |-> None, had_session |-> FALSE]})
                  /\ UNCHANGED <<connections, vcs, runs>>
     /\ \A h \in BagToSet(pending) :
          AutoRecordConnected(h, TRUE) =>
            /\ h.guild \in DOMAIN connections'
            /\ connections'[h.guild].vc \notin DOMAIN vcs
            /\ connections'[h.guild].summary_channel =
                 GuildGetChannel(h.guild, SUMMARY_CHANNEL_ID)
            /\ vcs'[connections'[h.guild].vc].recording]_vars

\* a join that found only bots in an allowed channel was ignored
C5_Witness ==
  /\ last = [op |-> "on_voice_state_update", text |-> "ignored: no non-bot member"]
  /\ connections = EmptyDict
  /\ pending = EmptyBag

InvalidArgLists == {a \in ArgLists : ~AllParse(a)}

\* C6: set_auto_record_channels with a token that int() rejects, at any
\* position, answers with the error and leaves the allowed list, the config
\* document and the config file as they were.
C6_InvalidRejectsAll ==
  [][\A ids \in InvalidArgLists : \A io \in WriteOutcomes :
       SetAutoRecordChannels(ids, io) =>
         /\ UNCHANGED cfgVars
         /\ last'.text = "Invalid channel ID provided in one or more inputs!"]_vars

\* the rejection happened with a non-empty list stored
C6_Witness ==
  /\ last = [op |-> "set_auto_record_channels",
             text |-> "Invalid channel ID provided in one or more inputs!"]
  /\ allowed_voice_channels # <<>>
  /\ config_file.doc = config

\* C7: when the transcription loop runs (the disconnect has returned), every
\* speaker of the captured set gets exactly one (speaker, text) entry, in the
\* set's iteration order: the recognized text if that speaker's call returned,
\* the sentinel if it raised; whatever fails, the run goes on to the
\* summarization call.
C7_OneEntryPerSpeaker ==
  [][\A vc \in {v \in DOMAIN runs : runs[v].pc = "disconnect"} :
       \A results \in [1..MaxSpeakers -> {"ok", "error"}] :
          OnceDoneDisconnected(vc, TRUE, results) =>
            /\ runs'[vc].pc = "summarize"
            /\ Len(runs'[vc].transcripts) = Len(runs[vc].audio)
            /\ \A i \in DOMAIN runs[vc].audio :
                 /\ runs'[vc].transcripts[i][1] = runs[vc].audio[i]
                 /\ results[i] = "ok" =>
                      runs'[vc].transcripts[i][2] = Heard(runs[vc].audio[i])
                 /\ results[i] = "error" =>
                      runs'[vc].transcripts[i][2] = "[Error transcribing audio]"]_vars

\* a run waits for its summary with the first speaker failed and the second
\* transcribed
C7_Witness ==
  \E vc \in DOMAIN runs :
    /\ runs[vc].pc = "summarize"
    /\ Len(runs[vc].transcripts) = 2
    /\ runs[vc].transcripts[1][2] = "[Error transcribing audio]"
    /\ runs[vc].transcripts[2][2] = Heard(runs[vc].transcripts[2][1])

\* C8: a run whose summarization call failed has ended, with the error logged
\* and with neither the summary nor the transcript posted.
C8_NoPostAfterFailedSummary ==
  \A vc \in DOMAIN runs :
    runs[vc].summarized = "failed" =>
      /\ runs[vc].pc = "done"
      /\ runs[vc].log = "Error in once_done"
      /\ runs[vc].summary_sent = None
      /\ runs[vc].transcript_sent = None

C8_Witness ==
  \E vc \in DOMAIN runs :
    /\ runs[vc].summarized = "failed"
    /\ runs[vc].pc = "done"
    /\ vcs[vc].dest # None
    /\ BotGetChannel(TRANSCRIPT_CHANNEL_ID) # None

\* C9: when the summary post has returned and the transcript channel id names
\* no channel at that moment, the run ends with the summary posted to the
\* session's destination, no transcript posted, "Transcript channel not found!"
\* logged, and not in the except clause.
C9_SummaryWithoutTranscript ==
  /\ [][\A vc \in {v \in DOMAIN runs : runs[v].pc = "post_summary"} :
          (BotGetChannel(TRANSCRIPT_CHANNEL_ID) = None /\ OnceDoneSummarySent(vc, TRUE)) =>
            /\ runs'[vc].pc = "done"
            /\ runs'[vc].log = "Transcript channel not found!"
            /\ runs'[vc].summary_sent = vcs[vc].dest
            /\ runs'[vc].transcript_sent = None]_vars
  /\ [](\A vc \in DOMAIN runs :
          runs[vc].log = "Transcript channel not found!" =>
            /\ runs[vc].summarized = "ok"
            /\ runs[vc].summary_sent = vcs[vc].dest
            /\ runs[vc].summary_sent # None
            /\ runs[vc].transcript_sent = None)

C9_Witness ==
  \E vc \in DOMAIN runs :
    /\ runs[vc].pc = "done"
    /\ runs[vc].log = "Transcript channel not found!"
    /\ runs[vc].summary_sent = vcs[vc].dest
    /\ runs[vc].summary_sent # None

\* C10 (as claimed): between handlers, the configuration in memory and the
\* contents of config.json are equal (a key the file lacks reads as its
\* default).
C10_ConfigInSync ==
  /\ config_file.state = "ok"
  /\ config_file.doc = config
  /\ allowed_voice_channels = Get(config_file.doc, "allowed_voice_channels", <<>>)
  /\ SUMMARY_CHANNEL_ID = Get(config_file.doc, "SUMMARY_CHANNEL_ID", DEFAULT_CHANNEL_ID)
  /\ TRANSCRIPT_CHANNEL_ID = Get(config_file.doc, "TRANSCRIPT_CHANNEL_ID", DEFAULT_CHANNEL_ID)


\* C11 (as claimed): the registry entry of a session that a join event started
\* leaves the registry only in the auto-stop branch of a leave event.
C11_OnlyLeaveToEmpty ==
  [][\A g \in DOMAIN connections :
       (vcs[connections[g].vc].mode = "auto" /\ g \notin DOMAIN connections') =>
          \E before \in {c \in VoiceChannelsOf(g) : InList(c, allowed_voice_channels)},
             after \in VoiceChannelsOf(g) \cup {None} :
             OnVoiceStateUpdate(g, before, after, <<Me>>)]_vars

\* C11 (amended): set_auto_record_channels changes no session, connection or
\* run; while the channel of an auto-started session is not in the allowed
\* list, a leave event that leaves only the bot in it does not stop the
\* session; and the entry of an auto-started session leaves the registry only
\* in the auto-stop branch of a leave event or in stop_recording for its guild.
C11_AutoSessionTeardown ==
  [][/\ allowed_voice_channels' # allowed_voice_channels => UNCHANGED sessVars
     /\ \A g \in DOMAIN connections :
          (/\ vcs[connections[g].vc].mode = "auto"
           /\ ~InList(vcs[connections[g].vc].channel, allowed_voice_channels)) =>
             \A after \in VoiceChannelsOf(g) \cup {None} :
                OnVoiceStateUpdate(g, vcs[connections[g].vc].channel, after, <<Me>>) =>
                  UNCHANGED sessVars
     /\ \A g \in DOMAIN connections :
          (vcs[connections[g].vc].mode = "auto" /\ g \notin DOMAIN connections') =>
             \/ StopRecording(g)
             \/ \E before \in {c \in VoiceChannelsOf(g) : InList(c, allowed_voice_channels)},
                   after \in VoiceChannelsOf(g) \cup {None} :
                   OnVoiceStateUpdate(g, before, after, <<Me>>)]_vars

\* the leave event that left only the bot was ignored: the session's channel
\* had been taken off the list, and the session is still registered
C11_Witness ==
  /\ last = [op |-> "on_voice_state_update", text |-> "ignored"]
  /\ \E g \in DOMAIN connections :
       /\ vcs[connections[g].vc].mode = "auto"
       /\ vcs[connections[g].vc].recording
       /\ ~InList(vcs[connections[g].vc].channel, allowed_voice_channels)

HandledOutcomes ==
  {"Auto-record: Connecting...", "Auto-recording started", "Auto-recording stopped",
   "ignored", "ignored: no non-bot member", "Error in on_voice_state_update"}

\* C12: a connect() that raises in the join branch and a stop_recording() that
\* raises in the auto-stop branch both end the voice-state handler in its
\* except clause, which logs; the failed connect registers nothing (the
\* registry, the connections and the runs are as they were), the failed stop
\* changes nothing; the handler never ends otherwise than in one of its own
\* outcomes; and right after such a failure a join with a non-bot member into
\* an allowed channel of a guild without a session goes to connect() as usual.
C12_HandlerCatches ==
  /\ [](last.op = "on_voice_state_update" => last.text \in HandledOutcomes)
  /\ [][/\ \A h \in BagToSet(pending) :
             AutoRecordConnected(h, FALSE) =>
               /\ last' = [op |-> "on_voice_state_update",
                           text |-> "Error in on_voice_state_update"]
               /\ UNCHANGED <<connections, vcs, runs>>
               /\ pending' = pending (-) SetToBag({h})
        /\ \A g \in DOMAIN connections :
             \A before \in {c \in VoiceChannelsOf(g) : InList(c, allowed_voice_channels)},
                after \in VoiceChannelsOf(g) \cup {None} :
                OnVoiceStateUpdateStopRaises(g, before, after, <<Me>>) =>
                  /\ last' = [op |-> "on_voice_state_update",
                              text |-> "Error in on_voice_state_update"]
                  /\ UNCHANGED sessVars
        /\ last.text = "Error in on_voice_state_update" =>
             \A g \in Guilds \ DOMAIN connections :
                \A after \in {c \in VoiceChannelsOf(g) : InList(c, allowed_voice_channels)} :
                   OnVoiceStateUpdate(g, None, after, <<"human">>) =>
                     /\ pending' = pending (+) SetToBag({[kind |-> "join", guild |-> g,
                                     channel |-> after, dest |-> None, had_session |-> FALSE]})
                     /\ last'.text = "Auto-record: Connecting..."]_vars

\* the connect of the only join failed: nothing is registered and no handler
\* is left suspended
C12_Witness ==
  /\ last = [op |-> "on_voice_state_update", text |-> "Error in on_voice_state_update"]
  /\ connections = EmptyDict
  /\ vcs = EmptyDict
  /\ pending = EmptyBag
  /\ allowed_voice_channels # <<>>

\* C13: record by a user who is in no voice channel answers "You aren't in a
\* voice channel!" without going to connect() and without changing registry,
\* connections or runs; when connect() raises, the failure message is sent and
\* nothing is registered; when connect() returns, the guild's entry holds the
\* new connection with the invoking text channel as destination and capture
\* is started on it; and a manual session enters the registry in no other step.
C13_RecordOutcomes ==
  [][/\ \A g \in Guilds : \A channel \in TextChannelsOf(g) :
          Record(g, None, channel) =>
            /\ last' = [op |-> "record", text |-> "You aren't in a voice channel!"]
            /\ UNCHANGED sessVars
     /\ \A h \in BagToSet(pending) :
          /\ RecordConnected(h, FALSE) =>
               /\ last' = [op |-> "record",
                           text |-> "Failed to connect to the voice channel."]
               /\ UNCHANGED <<connections, vcs, runs>>
          /\ RecordConnected(h, TRUE) =>
               /\ NewVc \notin DOMAIN vcs
               /\ h.dest \in TextChannelsOf(h.guild)
               /\ connections'[h.guild] = [vc |-> NewVc, summary_channel |-> h.dest]
               /\ vcs'[NewVc].recording
               /\ vcs'[NewVc].dest = h.dest
               /\ vcs'[NewVc].channel = h.channel
               /\ last' = [op |-> "record", text |-> "Listening to this conversation."]
     /\ \A g \in DOMAIN connections' :
          (/\ g \notin DOMAIN connections \/ connections'[g] # connections[g]
           /\ vcs'[connections'[g].vc].mode = "manual") =>
             \E h \in BagToSet(pending) :
                h.kind = "record" /\ h.guild = g /\ RecordConnected(h, TRUE)]_vars

\* the command was refused for want of a voice channel, with no connect
\* under way, in a guild without a session, while a manual session that an
\* earlier record registered is recording in the other guild
C13_Witness ==
  /\ last = [op |-> "record", text |-> "You aren't in a voice channel!"]
  /\ pending = EmptyBag
  /\ \E g \in DOMAIN connections :
       /\ DOMAIN connections = {g}
       /\ vcs[connections[g].vc].mode = "manual"
       /\ vcs[connections[g].vc].recording
       /\ connections[g].summary_channel \in TextChannelsOf(g)

\* the position of a run in once_done
Rank(pc) ==
  CASE pc = "scheduled" -> 0
    [] pc = "disconnect" -> 1
    [] pc = "summarize" -> 2
    [] pc = "post_summary" -> 3
    [] pc = "post_transcript" -> 4
    [] pc = "done" -> 5

\* C14: a run only moves forward through disconnect, transcription,
\* summarization, summary post, transcript post; a transcript exists only once
\* the disconnect has returned and only until the summarization call returns;
\* the outcome of the summarization call is set once, by the step that waits
\* for it, so the call is made once; the transcript post is reached only with
\* the summary posted, and no run has posted a transcript without the summary.
C14_StepsInOrder ==
  /\ [](\A vc \in DOMAIN runs :
          /\ runs[vc].transcripts # <<>> => runs[vc].pc = "summarize"
          /\ runs[vc].summarized # "no" => Rank(runs[vc].pc) >= 3
          /\ Rank(runs[vc].pc) \in {3, 4} => runs[vc].summarized = "ok"
          /\ runs[vc].summary_sent # None =>
               runs[vc].summarized = "ok" /\ Rank(runs[vc].pc) >= 4
          /\ runs[vc].pc = "post_transcript" => runs[vc].summary_sent # None
          /\ runs[vc].transcript_sent # None =>
               runs[vc].summary_sent # None /\ runs[vc].pc = "done")
  /\ [][\A vc \in DOMAIN runs :
          runs'[vc] # runs[vc] =>
            /\ Rank(runs'[vc].pc) > Rank(runs[vc].pc)
            /\ runs'[vc].transcripts # runs[vc].transcripts =>
                 runs[vc].pc \in {"disconnect", "summarize"}
            /\ runs'[vc].summarized # runs[vc].summarized =>
                 runs[vc].pc = "summarize" /\ runs[vc].summarized = "no"
            /\ runs'[vc].summary_sent # runs[vc].summary_sent =>
                 runs[vc].pc = "post_summary"
            /\ runs'[vc].transcript_sent # runs[vc].transcript_sent =>
                 runs[vc].pc = "post_transcript"]_vars

\* a run went through all its steps: both messages are posted
C14_Witness ==
  \E vc \in DOMAIN runs :
    /\ runs[vc].pc = "done"
    /\ runs[vc].summarized = "ok"
    /\ runs[vc].summary_sent # None
    /\ runs[vc].transcript_sent # None
    /\ runs[vc].log = ""

C16_TranscriptChannelAtPostTime ==
  /\ [](\A vc \in DOMAIN runs :
          /\ runs[vc].pc \in {"scheduled", "disconnect", "summarize", "post_summary"} =>
               runs[vc].transcript_channel = None
          /\ runs[vc].transcript_sent # None =>
               runs[vc].transcript_sent = runs[vc].transcript_channel)
  /\ [][/\ TRANSCRIPT_CHANNEL_ID' # TRANSCRIPT_CHANNEL_ID => runs' = runs
        /\ \A vc \in {v \in DOMAIN runs : runs[v].pc = "post_summary"} :
             OnceDoneSummarySent(vc, TRUE) =>
               /\ runs'[vc].transcript_channel = BotGetChannel(TRANSCRIPT_CHANNEL_ID)
               /\ BotGetChannel(TRANSCRIPT_CHANNEL_ID) # None =>
                    runs'[vc].pc = "post_transcript"
        /\ \A vc \in {v \in DOMAIN runs : runs[v].pc = "post_transcript"} :
             /\ runs'[vc].transcript_channel = runs[vc].transcript_channel
             /\ OnceDoneTranscriptSent(vc, TRUE) =>
                  runs'[vc].transcript_sent = runs[vc].transcript_channel]_vars

\* two sessions were recording at the same time, and their transcripts went
\* to two different channels: set_transcript_channel completed between the
\* two lookups
C16_Witness ==
  \E v1 \in DOMAIN runs, v2 \in DOMAIN runs :
    /\ runs[v1].transcript_sent # None
    /\ runs[v2].transcript_sent # None
    /\ runs[v1].transcript_sent # runs[v2].transcript_sent

\* C17: a voice-state event that is neither a join (no previous channel, a new
\* channel) into an allowed channel nor a departure from an allowed channel
\* whose member list is then exactly the bot changes neither the registry, nor
\* the suspended handlers, nor a connection, nor a run.
C17_OtherEventsIgnored ==
  [][sessVars' # sessVars =>
       \A g \in Guilds :
          \A before \in VoiceChannelsOf(g) \cup {None},
             after \in VoiceChannelsOf(g) \cup {None},
             members \in MemberLists :
             (/\ before # None \/ after # None
              /\ ~(before = None /\ after # None /\ InList(after, allowed_voice_channels))
              /\ ~(before # None /\ InList(before, allowed_voice_channels)
                   /\ members = <<Me>>)) =>
                ~OnVoiceStateUpdate(g, before, after, members)]_vars

\* an event was ignored while the bot records, by a record command, in a
\* channel that is not allowed, in a guild that has an allowed channel
C17_Witness ==
  /\ last = [op |-> "on_voice_state_update", text |-> "ignored"]
  /\ \E g \in DOMAIN connections :
       /\ vcs[connections[g].vc].mode = "manual"
       /\ vcs[connections[g].vc].recording
       /\ ~InList(vcs[connections[g].vc].channel, allowed_voice_channels)
       /\ \E c \in VoiceChannelsOf(g) : InList(c, allowed_voice_channels)

\* the registry entry of a guild, as a set: empty when the guild has none
Entry(g) == IF g \in DOMAIN connections THEN {connections[g]} ELSE {}

\* C18: a step that adds, replaces or removes the registry entry of a guild is
\* no command, event or resumed handler of another guild and no step of any
\* pipeline run; and every run that belongs to a guild other than
\* StalledGuild ends, whether or not the calls made for StalledGuild (its
\* summarization call among them) ever return, while stop_recording stays
\* available to that guild and record does too.
C18_GuildsIsolated ==
  /\ [][\A g \in Guilds :
          Entry(g)' # Entry(g) =>
            /\ \A vc \in DOMAIN runs : ~RunStep(vc)
            /\ \A h \in BagToSet(pending) :
                 h.guild # g => \A ok \in BOOLEAN :
                                  ~RecordConnected(h, ok) /\ ~AutoRecordConnected(h, ok)
            /\ \A g2 \in Guilds \ {g} :
                 /\ ~StopRecording(g2)
                 /\ \A voice \in VoiceChannelsOf(g2), channel \in TextChannelsOf(g2) :
                      ~Record(g2, voice, channel)
                 /\ \A before \in VoiceChannelsOf(g2) \cup {None},
                       after \in VoiceChannelsOf(g2) \cup {None},
                       members \in {<<Me>>, <<Me, "human">>} :
                       ~OnVoiceStateUpdate(g2, before, after, members)]_vars
  /\ [](\A g \in Guilds \ {StalledGuild} :
          /\ ENABLED StopRecording(g)
          /\ BagCardinality(pending) < MaxPending =>
               \A voice \in VoiceChannelsOf(g), channel \in TextChannelsOf(g) :
                  ENABLED Record(g, voice, channel))
  /\ \A vc \in 1..MaxVc :
       (vc \in DOMAIN runs /\ vcs[vc].guild # StalledGuild)
          ~> (vc \in DOMAIN runs /\ runs[vc].pc = "done")

\* the run of StalledGuild waits for its summary while the run of a
\* connection made later, for the other guild, has posted both messages
C18_Witness ==
  \E v1 \in DOMAIN runs, v2 \in DOMAIN runs :
    /\ vcs[v1].guild = StalledGuild
    /\ vcs[v2].guild # StalledGuild
    /\ v1 < v2
    /\ runs[v1].pc = "summarize"
    /\ runs[v2].pc = "done"
    /\ runs[v2].summary_sent # None
    /\ runs[v2].transcript_sent # None

\* C19: every run that has been scheduled ends; a run that has ended has
\* posted both messages, or the summary only (the transcript channel did not
\* resolve, or the transcript post failed; either is logged), or nothing, with
\* the error logged; and once scheduled, a run stays, and changes only by a
\* step of its own that moves it forward, whatever commands and events arrive.
C19_RunEnds ==
  /\ \A vc \in 1..MaxVc :
       (vc \in DOMAIN runs) ~> (vc \in DOMAIN runs /\ runs[vc].pc = "done")
  /\ [](\A vc \in DOMAIN runs :
          runs[vc].pc = "done" =>
            \/ /\ runs[vc].summary_sent # None
               /\ runs[vc].transcript_sent # None
               /\ runs[vc].log = ""
            \/ /\ runs[vc].summary_sent # None
               /\ runs[vc].transcript_sent = None
               /\ runs[vc].log \in {"Transcript channel not found!", "Error in once_done"}
            \/ /\ runs[vc].summary_sent = None
               /\ runs[vc].transcript_sent = None
               /\ runs[vc].log = "Error in once_done")
  /\ [][\A vc \in DOMAIN runs :
          /\ vc \in DOMAIN runs'
          /\ runs'[vc] # runs[vc] =>
               /\ RunStep(vc)
               /\ Rank(runs'[vc].pc) > Rank(runs[vc].pc)]_vars

\* a run has ended with the summary posted and the transcript skipped, and
\* the guild of its session has a new session registered by now
C19_Witness ==
  \E vc \in DOMAIN runs :
    /\ runs[vc].pc = "done"
    /\ runs[vc].summary_sent # None
    /\ runs[vc].log = "Transcript channel not found!"
    /\ vcs[vc].guild \in DOMAIN connections
    /\ connections[vcs[vc].guild].vc # vc

\* C20 (as claimed): every connection on which capture was started and not
\* yet stopped is the connection of its guild's registry entry, so that
\* stop_recording or the auto-stop can still reach it; and a connection has a
\* completion run exactly if its capture was stopped, which happens at most
\* once.
C20_NoOrphanRecording ==
  \A vc \in DOMAIN vcs :
    /\ vcs[vc].recording =>
         /\ vcs[vc].guild \in DOMAIN connections
         /\ connections[vcs[vc].guild].vc = vc
    /\ vcs[vc].stops <= 1
    /\ vc \in DOMAIN runs <=> vcs[vc].stops = 1

====
